---- MODULE Spec2Model ----
(***************************************************************************)
(* Model of src/src/EuroProxyArchitectureMap.tsx: the geometry helpers     *)
(* (rectCenter, rectEdges, anchorPoint, standoff, buildPolylinePath), the  *)
(* routing helper `routed`, the reference layout with its five routed      *)
(* flows, and the two pieces of UI state (focus, overviewMode).            *)
(*                                                                         *)
(* Numbers.  A TypeScript `number` is an IEEE 754 binary64 value: every    *)
(* `+` and `-` returns the exact result rounded to the nearest             *)
(* representable value, ties to even.  The model keeps that behaviour in a *)
(* format scaled down to what TLC's integers can hold: a number is an      *)
(* integer count of grid steps of size 2^-FracBits, and a value is         *)
(* representable when it needs at most MantBits significant bits (binary64 *)
(* has 53).  Every coordinate of the reference layout is representable, as *)
(* it is in binary64.  Infinities, NaN and the sign of zero are not        *)
(* modelled.                                                               *)
(***************************************************************************)
EXTENDS Integers, Sequences, FiniteSets, TLC

\* focus, overviewMode: the component's two pieces of state (useState).
\* nodes, lanes, show, flows: the values the component body declares on each
\*   render pass (node rectangles, bus lanes, visibility flags, the five
\*   routed point sequences).
\* rendered: the connector elements of the last render pass: the five Flow
\*   elements, the Vault's warning and the CrowdSec loop.
\* call: the call of an exported helper (or of routed) in progress, with its
\*   arguments and its result; [fn |-> "none"] between calls.
VARIABLES focus, overviewMode, nodes, lanes, show, flows, rendered, call

vars == <<focus, overviewMode, nodes, lanes, show, flows, rendered, call>>

\* ------------------------------------------------------------------------
\* Numbers
\* ------------------------------------------------------------------------
FracBits == 1
MantBits == 13

Unit == 2 ^ FracBits

\* The number written k in the source (k an integer literal).
Num(k) == k * Unit

\* The first magnitude at which neighbouring representable values are two
\* grid steps apart (2^53 in binary64).
Big == 2 ^ MantBits

RECURSIVE Quantum(_, _)
Quantum(m, q) == IF m < Big * q THEN q ELSE Quantum(m, 2 * q)

\* Round a non-negative exact value to the nearest representable one, ties
\* to the even significand.
RoundMag(m) ==
    LET q  == Quantum(m, 1)
        lo == (m \div q) * q
        r  == m - lo
    IN  IF 2 * r < q THEN lo
        ELSE IF 2 * r > q THEN lo + q
        ELSE IF (lo \div q) % 2 = 0 THEN lo ELSE lo + q

Round(v) == IF v < 0 THEN 0 - RoundMag(0 - v) ELSE RoundMag(v)

\* a + b and a - b as the language computes them.
Add(a, b) == Round(a + b)
Sub(a, b) == Round(a - b)

\* a / 2: exact, except at the bottom of the grid where the quotient is
\* rounded to the grid, ties to even (as at the subnormal floor).
Half(a) ==
    IF a % 2 = 0 THEN a \div 2
    ELSE LET lo == (a - 1) \div 2 IN IF lo % 2 = 0 THEN lo ELSE lo + 1

\* ------------------------------------------------------------------------
\* Types + geometry helpers
\* ------------------------------------------------------------------------
Pt(px, py) == [x |-> px, y |-> py]
Rect(rx, ry, rw, rh) == [x |-> rx, y |-> ry, w |-> rw, h |-> rh]

Side == {"top", "right", "bottom", "left"}

\* midpoint returning the half difference, without the offset `from`.
midpointNoOffset(from, to) ==
    Pt(Half(Sub(to.x, from.x)), Half(Sub(to.y, from.y)))

\* x * 0.5 is Half(x): halving is exact except at the bottom of the grid.
midpoint(from, to) ==
    Pt(Add(from.x, Half(Sub(to.x, from.x))), Add(from.y, Half(Sub(to.y, from.y))))

rectCenter(r) == Pt(Add(r.x, Half(r.w)), Add(r.y, Half(r.h)))

rectEdges(r) ==
    [left |-> r.x, right |-> Add(r.x, r.w), top |-> r.y, bottom |-> Add(r.y, r.h)]

\* anchorPoint with the top and bottom edges taken for one another.
anchorPointFlipped(r, side) ==
    LET c == rectCenter(r)
        e == rectEdges(r)
    IN  CASE side = "top"    -> Pt(c.x, e.bottom)
          [] side = "right"  -> Pt(e.right, c.y)
          [] side = "bottom" -> Pt(c.x, e.top)
          [] side = "left"   -> Pt(e.left, c.y)
          [] OTHER           -> c

\* anchorPoint falling back to the rectangle's origin instead of its center.
anchorPointDefaultOrigin(r, side) ==
    LET c == rectCenter(r)
        e == rectEdges(r)
    IN  CASE side = "top"    -> Pt(c.x, e.top)
          [] side = "right"  -> Pt(e.right, c.y)
          [] side = "bottom" -> Pt(c.x, e.bottom)
          [] side = "left"   -> Pt(e.left, c.y)
          [] OTHER           -> Pt(r.x, r.y)

anchorPoint(r, side) ==
    LET c == rectCenter(r)
        e == rectEdges(r)
    IN  CASE side = "top"    -> Pt(c.x, e.top)
          [] side = "right"  -> Pt(e.right, c.y)
          [] side = "bottom" -> Pt(c.x, e.bottom)
          [] side = "left"   -> Pt(e.left, c.y)
          [] OTHER           -> c

\* standoff moving into the rectangle instead of away from it.
standoffInward(p, side, d) ==
    CASE side = "top"    -> Pt(p.x, Add(p.y, d))
      [] side = "right"  -> Pt(Sub(p.x, d), p.y)
      [] side = "bottom" -> Pt(p.x, Sub(p.y, d))
      [] side = "left"   -> Pt(Add(p.x, d), p.y)
      [] OTHER           -> p

\* standoff ignoring its distance argument in favour of the layout's 28.
standoffFixed(p, side, d) ==
    CASE side = "top"    -> Pt(p.x, Sub(p.y, Num(28)))
      [] side = "right"  -> Pt(Add(p.x, Num(28)), p.y)
      [] side = "bottom" -> Pt(p.x, Add(p.y, Num(28)))
      [] side = "left"   -> Pt(Sub(p.x, Num(28)), p.y)
      [] OTHER           -> p

\* standoff defaulting a falsy distance (d || 28).
standoffDefaulted(p, side, d) ==
    LET dd == IF d = 0 THEN Num(28) ELSE d
    IN  CASE side = "top"    -> Pt(p.x, Sub(p.y, dd))
          [] side = "right"  -> Pt(Add(p.x, dd), p.y)
          [] side = "bottom" -> Pt(p.x, Add(p.y, dd))
          [] side = "left"   -> Pt(Sub(p.x, dd), p.y)
          [] OTHER           -> p

standoff(p, side, d) ==
    CASE side = "top"    -> Pt(p.x, Sub(p.y, d))
      [] side = "right"  -> Pt(Add(p.x, d), p.y)
      [] side = "bottom" -> Pt(p.x, Add(p.y, d))
      [] side = "left"   -> Pt(Sub(p.x, d), p.y)
      [] OTHER           -> p

\* ------------------------------------------------------------------------
\* Strings.  A string is the sequence of its characters; "" is << >>.
\* ------------------------------------------------------------------------
Digit == <<"0", "1", "2", "3", "4", "5", "6", "7", "8", "9">>

RECURSIVE IntDigits(_)
IntDigits(k) ==
    IF k < 10 THEN <<Digit[k + 1]>>
    ELSE IntDigits(k \div 10) \o <<Digit[(k % 10) + 1]>>

\* The decimal digits of the fraction f / Unit, 0 <= f < Unit.
RECURSIVE FracDigits(_)
FracDigits(f) ==
    IF f = 0 THEN << >>
    ELSE <<Digit[((f * 10) \div Unit) + 1]>> \o FracDigits((f * 10) % Unit)

\* `${n}` for a number n: Number::toString in radix 10 (shortest decimal
\* that reads back as n; every value of the model's range prints without an
\* exponent).
NumberToString(n) ==
    LET m == IF n < 0 THEN 0 - n ELSE n
        i == m \div Unit
        f == m % Unit
    IN  (IF n < 0 THEN <<"-">> ELSE << >>)
        \o IntDigits(i)
        \o (IF f = 0 THEN << >> ELSE <<".">> \o FracDigits(f))

\* Array.prototype.join
RECURSIVE join(_, _)
join(strs, sep) ==
    IF Len(strs) = 0 THEN << >>
    ELSE IF Len(strs) = 1 THEN strs[1]
    ELSE strs[1] \o sep \o join(Tail(strs), sep)

\* buildLinePath drawing the line from `to` back to `from`.
buildLinePathBackwards(from, to) ==
    <<"M", " ">> \o NumberToString(to.x) \o <<" ">> \o NumberToString(to.y)
        \o <<" ", "L", " ">> \o NumberToString(from.x) \o <<" ">> \o NumberToString(from.y)

buildLinePath(from, to) ==
    <<"M", " ">> \o NumberToString(from.x) \o <<" ">> \o NumberToString(from.y)
        \o <<" ", "L", " ">> \o NumberToString(to.x) \o <<" ">> \o NumberToString(to.y)

\* buildPolylinePath testing points.length < 1.
buildPolylinePathShortGuard(points) ==
    IF Len(points) < 1 THEN << >>
    ELSE LET first == Head(points)
             rest  == Tail(points)
         IN  <<"M", " ">> \o NumberToString(first.x) \o <<" ">>
                 \o NumberToString(first.y) \o <<" ">>
                 \o join([i \in 1..Len(rest) |->
                            <<"L", " ">> \o NumberToString(rest[i].x) \o <<" ">>
                                \o NumberToString(rest[i].y)],
                         <<" ">>)

\* buildPolylinePath writing the line segments' coordinates as y x.
buildPolylinePathSwapped(points) ==
    IF Len(points) < 2 THEN << >>
    ELSE LET first == Head(points)
             rest  == Tail(points)
         IN  <<"M", " ">> \o NumberToString(first.x) \o <<" ">>
                 \o NumberToString(first.y) \o <<" ">>
                 \o join([i \in 1..Len(rest) |->
                            <<"L", " ">> \o NumberToString(rest[i].y) \o <<" ">>
                                \o NumberToString(rest[i].x)],
                         <<" ">>)

buildPolylinePath(points) ==
    IF Len(points) < 2 THEN << >>
    ELSE LET first == Head(points)
             rest  == Tail(points)
         IN  <<"M", " ">> \o NumberToString(first.x) \o <<" ">>
                 \o NumberToString(first.y) \o <<" ">>
                 \o join([i \in 1..Len(rest) |->
                            <<"L", " ">> \o NumberToString(rest[i].x) \o <<" ">>
                                \o NumberToString(rest[i].y)],
                         <<" ">>)

\* Array.prototype.slice().reverse(): a reversed copy.
reverse(s) == [i \in 1..Len(s) |-> s[Len(s) + 1 - i]]

\* ------------------------------------------------------------------------
\* Main component: layout, bus lanes, routing
\* ------------------------------------------------------------------------
internet == Rect(Num(90), Num(160), Num(340), Num(210))
bouncer  == Rect(Num(480), Num(350), Num(540), Num(320))
vault    == Rect(Num(1060), Num(350), Num(540), Num(320))

\* ca placed on the row of the two nodes, where vault stands.
caOnNodeRow == Rect(Num(1180), Num(350), Num(360), Num(160))

ca       == Rect(Num(1180), Num(70), Num(360), Num(160))

topBusY    == Num(45)
midLaneY   == Num(280)
bottomBusY == Num(740)

\* routed leaving out the end port.
routedNoEnd(startRect, startSide, endRect, endSide, via) ==
    LET start    == anchorPoint(startRect, startSide)
        end      == anchorPoint(endRect, endSide)
        startOut == standoff(start, startSide, Num(28))
        endOut   == standoff(end, endSide, Num(28))
    IN  <<start, startOut>> \o via \o <<endOut>>

\* routed pushing the via points in reverse order.
routedViaReversed(startRect, startSide, endRect, endSide, via) ==
    LET start    == anchorPoint(startRect, startSide)
        end      == anchorPoint(endRect, endSide)
        startOut == standoff(start, startSide, Num(28))
        endOut   == standoff(end, endSide, Num(28))
    IN  <<start, startOut>> \o reverse(via) \o <<endOut, end>>

\* routed joining the two ports directly, without standoffs or lanes.
routedDirect(startRect, startSide, endRect, endSide, via) ==
    <<anchorPoint(startRect, startSide), anchorPoint(endRect, endSide)>>

routed(startRect, startSide, endRect, endSide, via) ==
    LET start    == anchorPoint(startRect, startSide)
        end      == anchorPoint(endRect, endSide)
        startOut == standoff(start, startSide, Num(28))
        endOut   == standoff(end, endSide, Num(28))
    IN  <<start, startOut>> \o via \o <<endOut, end>>

dnsPts ==
    routed(internet, "top", bouncer, "top",
           <<Pt(anchorPoint(internet, "top").x, topBusY),
             Pt(anchorPoint(bouncer, "top").x, topBusY)>>)

httpsPts ==
    routed(internet, "right", bouncer, "left",
           <<Pt(Num(430), midLaneY),
             Pt(Sub(anchorPoint(bouncer, "left").x, Num(35)), midLaneY)>>)

wgPts == routed(bouncer, "right", vault, "left", << >>)

acmePts ==
    routed(bouncer, "top", ca, "left",
           <<Pt(anchorPoint(bouncer, "top").x, topBusY),
             Pt(Sub(anchorPoint(ca, "left").x, Num(35)), topBusY),
             Pt(Sub(anchorPoint(ca, "left").x, Num(35)), anchorPoint(ca, "left").y)>>)

blockedPts ==
    routed(internet, "bottom", vault, "bottom",
           <<Pt(anchorPoint(internet, "bottom").x, bottomBusY),
             Pt(anchorPoint(vault, "bottom").x, bottomBusY)>>)

\* show with each threshold compared strictly (focus > n).
showOfStrict(f, o) ==
    [hardening |-> o \/ f > 1,
     wireguard |-> o \/ f > 2,
     lockVault |-> o \/ f > 3,
     dns       |-> o \/ f > 4,
     waf       |-> o \/ f > 5,
     crowdsec  |-> o \/ f > 6]

\* show displaying each phase's elements in that phase only (focus === n).
showOfExact(f, o) ==
    [hardening |-> o \/ f = 1,
     wireguard |-> o \/ f = 2,
     lockVault |-> o \/ f = 3,
     dns       |-> o \/ f = 4,
     waf       |-> o \/ f = 5,
     crowdsec  |-> o \/ f = 6]

\* Which phases' elements are displayed, from the two pieces of UI state.
showOf(f, o) ==
    [hardening |-> o \/ f >= 1,
     wireguard |-> o \/ f >= 2,
     lockVault |-> o \/ f >= 3,
     dns       |-> o \/ f >= 4,
     waf       |-> o \/ f >= 5,
     crowdsec  |-> o \/ f >= 6]

\* The node rectangles and the bus lanes one render pass declares.
nodeRects == [internet |-> internet, bouncer |-> bouncer, vault |-> vault, ca |-> ca]

busLanes == [topBusY |-> topBusY, midLaneY |-> midLaneY, bottomBusY |-> bottomBusY]

\* The point sequences one render pass hands to its Flow elements.
flowPts ==
    [dns |-> dnsPts, https |-> httpsPts, wg |-> wgPts,
     acme |-> acmePts, blocked |-> blockedPts]

\* The Flow component reversing its points prop in place (no slice()).
FlowInPlace(points, shown, bidirectional) ==
    IF ~shown THEN [points |-> points, out |-> [shown |-> FALSE]]
    ELSE [points |-> reverse(points),
          out |-> [shown |-> TRUE,
                   d |-> buildPolylinePath(points),
                   rev |-> buildPolylinePath(reverse(points)),
                   bidirectional |-> bidirectional]]

\* The Flow component: nothing when not shown; otherwise the forward path d
\* and the path rev of a reversed copy of the points (its packets are drawn
\* when bidirectional).  points is the caller's array after the call.
Flow(points, shown, bidirectional) ==
    IF ~shown THEN [points |-> points, out |-> [shown |-> FALSE]]
    ELSE [points |-> points,
          out |-> [shown |-> TRUE,
                   d |-> buildPolylinePath(points),
                   rev |-> buildPolylinePath(reverse(points)),
                   bidirectional |-> bidirectional]]

\* The canvas.
view == [w |-> Num(1600), h |-> Num(780)]

\* Step chips numbered from zero.
stepsZeroBased == 0..5

\* The phase numbers of the step chips.
steps == 1..6

\* The explanation shown for the selected phase, by phase number.
focusCopy ==
    <<"Phase 1: Procurement & Hardening", "Phase 2: The Secret Tunnel",
      "Phase 3: Locking The Vault", "Phase 4: Custom Nameservers",
      "Phase 5: Reverse Proxy & WAF", "Phase 6: Active Defense">>

\* What one render pass yields: the values the body declares and the
\* connector elements it returns, given show and the five Flow elements.
Rendering(sh, dns, https, wg, acme, blocked) ==
    [nodes    |-> nodeRects,
     lanes    |-> busLanes,
     show     |-> sh,
     flows    |-> [dns |-> dns.points, https |-> https.points, wg |-> wg.points,
                   acme |-> acme.points, blocked |-> blocked.points],
     rendered |-> [dns |-> dns.out, https |-> https.out, wg |-> wg.out,
                   acme |-> acme.out, blocked |-> blocked.out,
                   vaultWarning |-> [shown |-> sh.lockVault],
                   crowdsec |-> [shown |-> sh.crowdsec]]]

\* The component body routing a flow only when the flow is shown.
EuroProxyArchitectureMapLazyRoutes(f, o) ==
    Rendering(showOf(f, o),
              Flow(IF showOf(f, o).dns THEN dnsPts ELSE << >>, showOf(f, o).dns, TRUE),
              Flow(IF showOf(f, o).waf THEN httpsPts ELSE << >>, showOf(f, o).waf, TRUE),
              Flow(IF showOf(f, o).wireguard THEN wgPts ELSE << >>,
                   showOf(f, o).wireguard, TRUE),
              Flow(IF showOf(f, o).waf THEN acmePts ELSE << >>, showOf(f, o).waf, TRUE),
              Flow(IF showOf(f, o).lockVault THEN blockedPts ELSE << >>,
                   showOf(f, o).lockVault, FALSE))

\* One render pass of the component with state (focus, overviewMode) = (f, o).
EuroProxyArchitectureMap(f, o) ==
    Rendering(showOf(f, o),
              Flow(dnsPts, showOf(f, o).dns, TRUE),
              Flow(httpsPts, showOf(f, o).waf, TRUE),
              Flow(wgPts, showOf(f, o).wireguard, TRUE),
              Flow(acmePts, showOf(f, o).waf, TRUE),
              Flow(blockedPts, showOf(f, o).lockVault, FALSE))

\* ------------------------------------------------------------------------
\* Inputs of the exported helpers
\* ------------------------------------------------------------------------
MaxPts == 3

\* Coordinates: negative, zero, one grid step, ordinary, and at the
\* magnitude where the spacing of representable values exceeds a grid step.
Coord == {0 - Num(3), 0, Num(100), Big}

Dist == {0, 1, Num(28), Num(100), Big}

Points == {Pt(cx, cy) : cx \in {0 - Num(3), 0, 1, Big}, cy \in {0 - Num(3), 0, 1, Big}}

Sizes == {<<Num(2), Num(2)>>, <<Num(200), Num(100)>>, <<Big, Num(2)>>}

Rects ==
    {Rect(cx, cy, sz[1], sz[2]) : cx \in Coord, cy \in Coord, sz \in Sizes}
        \cup {Rect(Num(100), Num(50), Num(200), Num(100))}

\* A side value outside the Side type reaches the default branches.
AnySide == Side \cup {"center", ""}

RouteRects == {internet, bouncer, vault, ca,
               Rect(Num(100), Num(50), Num(200), Num(100)),
               Rect(0 - Num(3), Big, Big, Num(2))}

Vias == {<< >>,
         <<Pt(Num(430), midLaneY)>>,
         <<Pt(0, topBusY), Pt(0 - Num(3), 1)>>,
         <<Pt(Big, 0), Pt(0, topBusY), Pt(0, topBusY)>>}

PathPts == {Pt(0, 0), Pt(Num(260), 0 - Num(45)),
            Pt(Unit \div 2, Num(12) + Unit \div 2), Pt(0 - 1, Big + 2)}

FlowRects == {internet, Rect(0 - Num(3), Big, Big, Num(2))}

\* <<show, bidirectional>>
FlowOpts == {<<TRUE, TRUE>>, <<TRUE, FALSE>>, <<FALSE, TRUE>>}

LinePts == PathPts \cup {Pt(Num(1), Num(2)), Pt(Num(3), Num(4))}

MidPts == {Pt(0, 0), Pt(Num(10), Num(20)), Pt(0 - Unit, Big), Pt(1, 0 - Num(3)),
           Pt(Big, Num(3))}

SeqsUpTo(S, n) == UNION {[1..k -> S] : k \in 0..n}

\* ------------------------------------------------------------------------
\* State machine
\* ------------------------------------------------------------------------
Init ==
    \E body \in {EuroProxyArchitectureMap(6, TRUE)} :
        /\ focus = 6
        /\ overviewMode = TRUE
        /\ nodes = body.nodes
        /\ lanes = body.lanes
        /\ show = body.show
        /\ flows = body.flows
        /\ rendered = body.rendered
        /\ call = [fn |-> "none"]

\* A helper runs to completion before anything else happens: calls and event
\* handlers start only when no call is in progress.
Idle == call.fn = "none"

\* A StepChip whose onClick also leaves overview mode.
SetFocusEntersPhaseMode(n) ==
    \E body \in {EuroProxyArchitectureMap(n, FALSE)} :
        /\ Idle
        /\ focus' = n
        /\ overviewMode' = FALSE
        /\ nodes' = body.nodes
        /\ lanes' = body.lanes
        /\ show' = body.show
        /\ flows' = body.flows
        /\ rendered' = body.rendered
        /\ UNCHANGED call

\* onClick of a StepChip: setFocus(s.n), then the component renders again.
SetFocus(n) ==
    \E body \in {EuroProxyArchitectureMap(n, overviewMode)} :
        /\ Idle
        /\ focus' = n
        /\ nodes' = body.nodes
        /\ lanes' = body.lanes
        /\ show' = body.show
        /\ flows' = body.flows
        /\ rendered' = body.rendered
        /\ UNCHANGED <<overviewMode, call>>

\* onClick of the Overview / Phase mode toggles: setOverviewMode(b), then the
\* component renders again.
SetOverviewMode(b) ==
    \E body \in {EuroProxyArchitectureMap(focus, b)} :
        /\ Idle
        /\ overviewMode' = b
        /\ nodes' = body.nodes
        /\ lanes' = body.lanes
        /\ show' = body.show
        /\ flows' = body.flows
        /\ rendered' = body.rendered
        /\ UNCHANGED <<focus, call>>

CallAnchorPoint(r, side) ==
    /\ Idle
    /\ call' = [fn |-> "anchorPoint", r |-> r, side |-> side,
                out |-> anchorPoint(r, side)]
    /\ UNCHANGED <<focus, overviewMode, nodes, lanes, show, flows, rendered>>

CallStandoff(p, side, d) ==
    /\ Idle
    /\ call' = [fn |-> "standoff", p |-> p, side |-> side, d |-> d,
                out |-> standoff(p, side, d)]
    /\ UNCHANGED <<focus, overviewMode, nodes, lanes, show, flows, rendered>>

CallRouted(startRect, startSide, endRect, endSide, via) ==
    /\ Idle
    /\ call' = [fn |-> "routed", startRect |-> startRect, startSide |-> startSide,
                endRect |-> endRect, endSide |-> endSide, via |-> via,
                out |-> routed(startRect, startSide, endRect, endSide, via)]
    /\ UNCHANGED <<focus, overviewMode, nodes, lanes, show, flows, rendered>>

CallBuildPolylinePath(points) ==
    /\ Idle
    /\ call' = [fn |-> "buildPolylinePath", points |-> points,
                out |-> buildPolylinePath(points)]
    /\ UNCHANGED <<focus, overviewMode, nodes, lanes, show, flows, rendered>>

\* A Flow element given a routed point sequence.
CallFlow(startRect, startSide, endRect, endSide, via, shown, bidirectional) ==
    \E el \in {Flow(routed(startRect, startSide, endRect, endSide, via),
                   shown, bidirectional)} :
        /\ Idle
        /\ call' = [fn |-> "Flow", startRect |-> startRect, startSide |-> startSide,
                    endRect |-> endRect, endSide |-> endSide, via |-> via,
                    points |-> el.points, out |-> el.out]
        /\ UNCHANGED <<focus, overviewMode, nodes, lanes, show, flows, rendered>>

CallBuildLinePath(from, to) ==
    /\ Idle
    /\ call' = [fn |-> "buildLinePath", from |-> from, to |-> to,
                out |-> buildLinePath(from, to)]
    /\ UNCHANGED <<focus, overviewMode, nodes, lanes, show, flows, rendered>>

CallMidpoint(from, to) ==
    /\ Idle
    /\ call' = [fn |-> "midpoint", from |-> from, to |-> to,
                out |-> midpoint(from, to)]
    /\ UNCHANGED <<focus, overviewMode, nodes, lanes, show, flows, rendered>>

\* The helper returns to its caller; the next call starts afresh.
Return ==
    /\ call.fn # "none"
    /\ call' = [fn |-> "none"]
    /\ UNCHANGED <<focus, overviewMode, nodes, lanes, show, flows, rendered>>

Next ==
    \/ Idle /\ \E n \in steps : SetFocus(n)
    \/ Idle /\ \E b \in BOOLEAN : SetOverviewMode(b)
    \/ Idle /\ \E r \in Rects, side \in AnySide : CallAnchorPoint(r, side)
    \/ Idle /\ \E p \in Points, side \in AnySide, d \in Dist : CallStandoff(p, side, d)
    \/ Idle /\ \E r \in Rects, side \in Side, d \in Dist :
                  CallStandoff(anchorPoint(r, side), side, d)
    \/ Idle /\ \E startRect \in RouteRects, startSide \in Side,
                  endRect \in RouteRects, endSide \in Side, via \in Vias :
                  CallRouted(startRect, startSide, endRect, endSide, via)
    \/ Idle /\ \E points \in SeqsUpTo(PathPts, MaxPts) : CallBuildPolylinePath(points)
    \/ Idle /\ \E from \in LinePts, to \in LinePts : CallBuildLinePath(from, to)
    \/ Idle /\ \E from \in MidPts, to \in MidPts : CallMidpoint(from, to)
    \/ Idle /\ \E startRect \in FlowRects, startSide \in Side,
                  endRect \in FlowRects, endSide \in Side, via \in Vias,
                  opt \in FlowOpts :
                  CallFlow(startRect, startSide, endRect, endSide, via, opt[1], opt[2])
    \/ Return

Spec == Init /\ [][Next]_vars

\* ------------------------------------------------------------------------
\* Exact plane geometry used to state the properties (coordinates are exact
\* counts of grid steps, so integer arithmetic decides every comparison).
\* ------------------------------------------------------------------------
\* For one axis of the segment a + t * d, 0 <= t <= 1, and the open interval
\* (lo, hi): the strict lower and upper bounds on t, as fractions
\* <<numerator, positive denominator>>.
LowerT(a, d, lo, hi) ==
    IF d > 0 THEN {<<lo - a, d>>} ELSE IF d < 0 THEN {<<a - hi, 0 - d>>} ELSE {}

UpperT(a, d, lo, hi) ==
    IF d > 0 THEN {<<hi - a, d>>} ELSE IF d < 0 THEN {<<a - lo, 0 - d>>} ELSE {}

AxisOk(a, d, lo, hi) == d # 0 \/ (lo < a /\ a < hi)

\* The closed segment from p to q contains a point strictly inside r.
SegmentEntersInterior(p, q, r) ==
    LET dx == q.x - p.x
        dy == q.y - p.y
        ls == LowerT(p.x, dx, r.x, r.x + r.w) \cup LowerT(p.y, dy, r.y, r.y + r.h)
        us == UpperT(p.x, dx, r.x, r.x + r.w) \cup UpperT(p.y, dy, r.y, r.y + r.h)
    IN  /\ AxisOk(p.x, dx, r.x, r.x + r.w)
        /\ AxisOk(p.y, dy, r.y, r.y + r.h)
        /\ \A l \in ls : l[1] < l[2]
        /\ \A u \in us : u[1] > 0
        /\ \A l \in ls, u \in us : l[1] * u[2] < u[1] * l[2]

\* ------------------------------------------------------------------------
\* Properties
\* ------------------------------------------------------------------------

\* C1: the sequence returned by routed starts at the start port,
\* anchorPoint(startRect, startSide), and ends at the end port,
\* anchorPoint(endRect, endSide), whatever the via points are.
C1_RoutedEndpoints ==
    call.fn = "routed" =>
        /\ Len(call.out) >= 1
        /\ call.out[1] = anchorPoint(call.startRect, call.startSide)
        /\ call.out[Len(call.out)] = anchorPoint(call.endRect, call.endSide)

C1_Witness ==
    /\ call.fn = "routed"
    /\ Len(call.via) = 3
    /\ call.startRect = internet /\ call.startSide = "top"
    /\ call.endRect = ca /\ call.endSide = "left"
    /\ call.out[1] = Pt(Num(260), Num(160))
    /\ call.out[7] = Pt(Num(1180), Num(150))

\* C2: routed returns exactly start, startOut, the via points unchanged and
\* in order, endOut, end, where startOut and endOut are the ports moved
\* outward by 28; so its length is n + 4, and the direct WireGuard route
\* (no via points) is exactly the 4 points port, port + 28, port - 28, port.
C2_RoutedSequence ==
    /\ call.fn = "routed" =>
          LET n     == Len(call.via)
              start == anchorPoint(call.startRect, call.startSide)
              end   == anchorPoint(call.endRect, call.endSide)
          IN  /\ Len(call.out) = n + 4
              /\ call.out[1] = start
              /\ call.out[2] = standoff(start, call.startSide, Num(28))
              /\ \A i \in 1..n : call.out[2 + i] = call.via[i]
              /\ call.out[n + 3] = standoff(end, call.endSide, Num(28))
              /\ call.out[n + 4] = end
    /\ flows.wg = <<Pt(Num(1020), Num(510)), Pt(Num(1048), Num(510)),
                    Pt(Num(1032), Num(510)), Pt(Num(1060), Num(510))>>

C2_Witness ==
    /\ call.fn = "routed"
    /\ call.via = <<Pt(0, topBusY), Pt(0 - Num(3), 1)>>
    /\ call.startRect = bouncer /\ call.startSide = "right"
    /\ call.endRect = vault /\ call.endSide = "left"
    /\ Len(call.out) = 6
    /\ call.out[3] = Pt(0, topBusY)
    /\ Len(flows.wg) = 4

\* C3: in the reference layout no segment between two consecutive points of
\* any of the five flows contains a point strictly inside a node rectangle.
C3_FlowsAvoidNodeInteriors ==
    \A f \in DOMAIN flows : \A i \in 1..(Len(flows[f]) - 1) : \A n \in DOMAIN nodes :
        ~SegmentEntersInterior(flows[f][i], flows[f][i + 1], nodes[n])

C3_Witness ==
    /\ DOMAIN flows = {"dns", "https", "wg", "acme", "blocked"}
    /\ DOMAIN nodes = {"internet", "bouncer", "vault", "ca"}
    /\ flows.https[2] = Pt(Num(458), Num(265))
    /\ flows.https[3] = Pt(Num(430), Num(280))
    /\ flows.blocked[4] = Pt(Num(1330), Num(740))
    /\ SegmentEntersInterior(Pt(Num(260), Num(160)), Pt(Num(750), Num(350)), nodes.internet)
    /\ ~overviewMode /\ focus = 5

\* C4: none of the three lanes, taken as the horizontal line y = lane, passes
\* through the interior of a node rectangle.
C4_LanesClearOfNodes ==
    \A l \in DOMAIN lanes : \A n \in DOMAIN nodes :
        ~(nodes[n].y < lanes[l] /\ lanes[l] < nodes[n].y + nodes[n].h)

\* C5: anchorPoint(r, side) is the midpoint of the named edge: top and
\* bottom have x = rectCenter(r).x with y = r.y and y = r.y + r.h; left and
\* right have y = rectCenter(r).y with x = r.x and x = r.x + r.w; so each
\* anchor lies on the rectangle's boundary.
C5_AnchorIsEdgeMidpoint ==
    (call.fn = "anchorPoint" /\ call.side \in Side) =>
        LET r == call.r
            c == rectCenter(r)
            e == rectEdges(r)
        IN  /\ call.side = "top"    => call.out = Pt(c.x, r.y)
            /\ call.side = "bottom" => call.out = Pt(c.x, Add(r.y, r.h))
            /\ call.side = "left"   => call.out = Pt(r.x, c.y)
            /\ call.side = "right"  => call.out = Pt(Add(r.x, r.w), c.y)
            /\ e.left <= call.out.x /\ call.out.x <= e.right
            /\ e.top <= call.out.y /\ call.out.y <= e.bottom
            /\ call.out.x \in {e.left, e.right} \/ call.out.y \in {e.top, e.bottom}

C5_Witness ==
    /\ call.fn = "anchorPoint"
    /\ call.r = Rect(Num(100), Num(50), Num(200), Num(100))
    /\ call.side = "left"
    /\ call.out = Pt(Num(100), Num(100))

\* The step p -> standoff(p, side, d) is computed without rounding.
ExactStep(p, side, d) ==
    CASE side = "top"    -> Sub(p.y, d) = p.y - d
      [] side = "right"  -> Add(p.x, d) = p.x + d
      [] side = "bottom" -> Add(p.y, d) = p.y + d
      [] side = "left"   -> Sub(p.x, d) = p.x - d
      [] OTHER           -> TRUE

\* q is p moved by exactly d away from r on the given side, and lies outside
\* the closed rectangle r.
MovedOutwardBy(p, q, r, side, d) ==
    /\ side = "top"    => q.x = p.x /\ q.y = p.y - d /\ q.y < r.y
    /\ side = "bottom" => q.x = p.x /\ q.y = p.y + d /\ q.y > r.y + r.h
    /\ side = "left"   => q.y = p.y /\ q.x = p.x - d /\ q.x < r.x
    /\ side = "right"  => q.y = p.y /\ q.x = p.x + d /\ q.x > r.x + r.w

\* q is p moved by at most d away from r on the given side, or not at all.
NotMovedInward(p, q, side, d) ==
    /\ side = "top"    => q.x = p.x /\ p.y - d <= q.y /\ q.y <= p.y
    /\ side = "bottom" => q.x = p.x /\ p.y <= q.y /\ q.y <= p.y + d
    /\ side = "left"   => q.y = p.y /\ p.x - d <= q.x /\ q.x <= p.x
    /\ side = "right"  => q.y = p.y /\ p.x <= q.x /\ q.x <= p.x + d

\* C6 (as stated): for every rectangle r, side s and distance d > 0,
\* standoff(anchorPoint(r, s), s, d) differs from the port only in the
\* coordinate perpendicular to s, by exactly d, and lies outside r.
C6_StandoffMovesOutward ==
    (call.fn = "standoff" /\ call.side \in Side /\ call.d > 0) =>
        \A r \in Rects :
            call.p = anchorPoint(r, call.side) =>
                MovedOutwardBy(call.p, call.out, r, call.side, call.d)

\* C6 (amended): standoff(anchorPoint(r, s), s, d) with d > 0 keeps the
\* coordinate parallel to s and never moves inward; whenever port +/- d is
\* computed without rounding it differs from the port by exactly d in the
\* perpendicular coordinate and lies outside the closed rectangle r.
C6_StandoffMovesOutwardWhenExact ==
    (call.fn = "standoff" /\ call.side \in Side /\ call.d > 0) =>
        \A r \in Rects :
            call.p = anchorPoint(r, call.side) =>
                /\ NotMovedInward(call.p, call.out, call.side, call.d)
                /\ ExactStep(call.p, call.side, call.d) =>
                       MovedOutwardBy(call.p, call.out, r, call.side, call.d)

C6_Witness ==
    /\ call.fn = "standoff"
    /\ call.p = anchorPoint(Rect(Num(100), Num(50), Num(200), Num(100)), "top")
    /\ call.side = "top"
    /\ call.d = Num(28)
    /\ ExactStep(call.p, call.side, call.d)
    /\ call.out = Pt(Num(200), Num(22))

\* C7 (as stated): for every point p, side s and distances d1, d2 >= 0,
\* standoff(standoff(p, s, d1), s, d2) = standoff(p, s, d1 + d2).
C7_StandoffAdditive ==
    call.fn = "standoff" =>
        \A d2 \in Dist :
            standoff(call.out, call.side, d2)
                = standoff(call.p, call.side, Add(call.d, d2))

\* C7 (amended): the two agree whenever the intermediate results, the first
\* step p +/- d1 and the sum d1 + d2, are computed without rounding.
C7_StandoffAdditiveWhenExact ==
    call.fn = "standoff" =>
        \A d2 \in Dist :
            (ExactStep(call.p, call.side, call.d) /\ Add(call.d, d2) = call.d + d2) =>
                standoff(call.out, call.side, d2)
                    = standoff(call.p, call.side, Add(call.d, d2))

C7_Witness ==
    /\ call.fn = "standoff"
    /\ call.p = Pt(0, 1)
    /\ call.side = "left"
    /\ call.d = Num(28)
    /\ call.out = Pt(0 - Num(28), 1)
    /\ ExactStep(call.p, call.side, call.d)
    /\ Add(call.d, Num(100)) = Num(128)
    /\ standoff(call.out, call.side, Num(100)) = Pt(0 - Num(128), 1)

\* C8: for every point p and side s, standoff(p, s, 0) = p.
C8_StandoffZeroIsIdentity ==
    (call.fn = "standoff" /\ call.d = 0) => call.out = call.p

C8_Witness ==
    /\ call.fn = "standoff"
    /\ call.d = 0
    /\ call.side = "bottom"
    /\ call.p = Pt(1, Big)
    /\ call.out = Pt(1, Big)

\* ------------------------------------------------------------------------
\* Reading a path descriptor: the points an SVG path "M x y L x y ..." visits
\* ------------------------------------------------------------------------
RECURSIVE SplitAcc(_, _, _)
SplitAcc(str, cur, acc) ==
    IF str = << >> THEN Append(acc, cur)
    ELSE IF Head(str) = " " THEN SplitAcc(Tail(str), << >>, Append(acc, cur))
    ELSE SplitAcc(Tail(str), Append(cur, Head(str)), acc)

\* The space-separated tokens of a string (none for the empty string).
Tokens(str) == IF str = << >> THEN << >> ELSE SplitAcc(str, << >>, << >>)

IsDigit(c) == \E k \in 1..10 : Digit[k] = c

DigitVal(c) == (CHOOSE k \in 1..10 : Digit[k] = c) - 1

RECURSIVE DigitsVal(_)
DigitsVal(ds) ==
    IF ds = << >> THEN 0
    ELSE 10 * DigitsVal(SubSeq(ds, 1, Len(ds) - 1)) + DigitVal(ds[Len(ds)])

IndexOf(str, c) ==
    IF \E i \in 1..Len(str) : str[i] = c
    THEN CHOOSE i \in 1..Len(str) : str[i] = c /\ \A j \in 1..(i - 1) : str[j] # c
    ELSE 0

\* An unsigned decimal: digits, optionally followed by "." and digits.
IsUnsigned(tok) ==
    LET dot == IndexOf(tok, ".")
        ip  == IF dot = 0 THEN tok ELSE SubSeq(tok, 1, dot - 1)
        fp  == IF dot = 0 THEN << >> ELSE SubSeq(tok, dot + 1, Len(tok))
    IN  /\ Len(ip) >= 1
        /\ \A i \in 1..Len(ip) : IsDigit(ip[i])
        /\ dot # 0 => Len(fp) >= 1
        /\ \A i \in 1..Len(fp) : IsDigit(fp[i])
        /\ (DigitsVal(fp) * Unit) % (10 ^ Len(fp)) = 0

UnsignedVal(tok) ==
    LET dot == IndexOf(tok, ".")
        ip  == IF dot = 0 THEN tok ELSE SubSeq(tok, 1, dot - 1)
        fp  == IF dot = 0 THEN << >> ELSE SubSeq(tok, dot + 1, Len(tok))
    IN  DigitsVal(ip) * Unit + (DigitsVal(fp) * Unit) \div (10 ^ Len(fp))

IsNumber(tok) ==
    /\ Len(tok) >= 1
    /\ IF tok[1] = "-" THEN IsUnsigned(Tail(tok)) ELSE IsUnsigned(tok)

NumberVal(tok) ==
    IF tok[1] = "-" THEN 0 - UnsignedVal(Tail(tok)) ELSE UnsignedVal(tok)

\* A move to one point followed by one line segment per further point.
TokensAreMoveThenLines(t) ==
    /\ Len(t) >= 3
    /\ Len(t) % 3 = 0
    /\ \A i \in 1..(Len(t) \div 3) :
          /\ t[3 * i - 2] = (IF i = 1 THEN <<"M">> ELSE <<"L">>)
          /\ IsNumber(t[3 * i - 1])
          /\ IsNumber(t[3 * i])

IsMoveThenLines(path) == TokensAreMoveThenLines(Tokens(path))

\* The points such a path visits, in drawing order.
VisitsOfTokens(t) ==
    [i \in 1..(Len(t) \div 3) |-> Pt(NumberVal(t[3 * i - 1]), NumberVal(t[3 * i]))]

Visits(path) == VisitsOfTokens(Tokens(path))

\* C9: buildPolylinePath returns the empty path for every sequence of
\* length 0 or 1 and a non-empty path for every sequence of length 2 or more.
C9_ShortInputGivesEmptyPath ==
    call.fn = "buildPolylinePath" =>
        /\ Len(call.points) < 2 => call.out = << >>
        /\ Len(call.points) >= 2 => call.out # << >>

C9_Witness ==
    /\ call.fn = "buildPolylinePath"
    /\ call.points = <<Pt(Num(260), 0 - Num(45))>>
    /\ call.out = << >>

\* C10: for a sequence of 2 or more points the path is a move to the first
\* point and one line segment per following point, visiting exactly the input
\* points in input order; the path of the reversed sequence visits the same
\* points in the reverse order.
C10_PathVisitsPointsInOrder ==
    (call.fn = "buildPolylinePath" /\ Len(call.points) >= 2) =>
        LET rev == buildPolylinePath(reverse(call.points))
        IN  /\ IsMoveThenLines(call.out)
            /\ Visits(call.out) = call.points
            /\ IsMoveThenLines(rev)
            /\ Visits(rev) = reverse(Visits(call.out))

C10_Witness ==
    /\ call.fn = "buildPolylinePath"
    /\ call.points = <<Pt(Num(260), 0 - Num(45)),
                       Pt(Unit \div 2, Num(12) + Unit \div 2), Pt(0, 0)>>
    /\ call.out = <<"M", " ", "2", "6", "0", " ", "-", "4", "5", " ",
                    "L", " ", "0", ".", "5", " ", "1", "2", ".", "5", " ",
                    "L", " ", "0", " ", "0">>
    /\ Visits(buildPolylinePath(reverse(call.points))) = reverse(call.points)

\* C11: buildLinePath(from, to) is the 2-point path that moves to `from` and
\* draws one line to `to`, the same descriptor buildPolylinePath([from, to])
\* produces.
C11_LinePathIsTwoPointPolyline ==
    call.fn = "buildLinePath" =>
        /\ IsMoveThenLines(call.out)
        /\ Visits(call.out) = <<call.from, call.to>>
        /\ call.out = buildPolylinePath(<<call.from, call.to>>)

C11_Witness ==
    /\ call.fn = "buildLinePath"
    /\ call.from = Pt(Num(1), Num(2))
    /\ call.to = Pt(Num(3), Num(4))
    /\ call.out = <<"M", " ", "1", " ", "2", " ", "L", " ", "3", " ", "4">>

\* The component-wise average of a and b, exactly: twice q is a + b.
IsAverage(q, a, b) == 2 * q.x = a.x + b.x /\ 2 * q.y = a.y + b.y

\* from + (to - from) * 0.5 is computed without rounding in one coordinate.
ExactMid(a, b) ==
    /\ Sub(b, a) = b - a
    /\ (b - a) % 2 = 0
    /\ Add(a, (b - a) \div 2) = a + (b - a) \div 2

\* C12 (as stated): midpoint(a, b) is the component-wise average of a and
\* b, and midpoint(a, b) = midpoint(b, a).
C12_MidpointIsSymmetricAverage ==
    call.fn = "midpoint" =>
        /\ IsAverage(call.out, call.from, call.to)
        /\ call.out = midpoint(call.to, call.from)

\* C12 (amended): whenever to - from, its half and the final sum are
\* computed without rounding in both coordinates, midpoint(from, to) is the
\* component-wise average and equals midpoint(to, from).
C12_MidpointIsSymmetricAverageWhenExact ==
    (/\ call.fn = "midpoint"
     /\ ExactMid(call.from.x, call.to.x)
     /\ ExactMid(call.from.y, call.to.y)) =>
        /\ IsAverage(call.out, call.from, call.to)
        /\ call.out = midpoint(call.to, call.from)

C12_Witness ==
    /\ call.fn = "midpoint"
    /\ call.from = Pt(0, 0)
    /\ call.to = Pt(Num(10), Num(20))
    /\ ExactMid(call.from.x, call.to.x)
    /\ ExactMid(call.from.y, call.to.y)
    /\ call.out = Pt(Num(5), Num(10))

\* C13: for every side value outside top, right, bottom, left,
\* anchorPoint(r, side) returns rectCenter(r).
C13_UnknownSideGivesCenter ==
    (call.fn = "anchorPoint" /\ call.side \notin Side) =>
        call.out = rectCenter(call.r)

C13_Witness ==
    /\ call.fn = "anchorPoint"
    /\ call.side = "center"
    /\ call.r = Rect(Num(100), Num(50), Num(200), Num(100))
    /\ call.out = Pt(Num(200), Num(100))

\* ------------------------------------------------------------------------
\* Connectors and their visibility
\* ------------------------------------------------------------------------
\* The minimum phase of each connector, as the description gives it.
MinPhase ==
    [wg |-> 2, blocked |-> 3, vaultWarning |-> 3, dns |-> 4, https |-> 5,
     acme |-> 5, crowdsec |-> 6]

Connectors == DOMAIN MinPhase

\* The connectors the last render pass displays.
Visible == {c \in DOMAIN rendered : rendered[c].shown}

\* C14: the reverse path of a Flow is the list reversal of the routed
\* sequence, computed on a copy: the forward sequence is unchanged, and the
\* reversed one has the same length, starts with the end port followed by
\* endOut and ends with startOut followed by the start port.
C14_ReversePathIsReversedCopy ==
    (call.fn = "Flow" /\ call.out.shown) =>
          LET pts   == routed(call.startRect, call.startSide,
                              call.endRect, call.endSide, call.via)
              start == anchorPoint(call.startRect, call.startSide)
              end   == anchorPoint(call.endRect, call.endSide)
              rv    == Visits(call.out.rev)
              n     == Len(pts)
          IN  /\ call.points = pts
              /\ Visits(call.out.d) = pts
              /\ rv = reverse(pts)
              /\ Len(rv) = n
              /\ rv[1] = end
              /\ rv[2] = standoff(end, call.endSide, Num(28))
              /\ rv[n - 1] = standoff(start, call.startSide, Num(28))
              /\ rv[n] = start

C14_Witness ==
    /\ call.fn = "Flow"
    /\ call.out.shown /\ call.out.bidirectional
    /\ call.startRect = internet /\ call.startSide = "right"
    /\ call.endRect = internet /\ call.endSide = "bottom"
    /\ call.via = <<Pt(Num(430), midLaneY)>>
    /\ Visits(call.out.rev) =
          <<Pt(Num(260), Num(370)), Pt(Num(260), Num(398)), Pt(Num(430), Num(280)),
            Pt(Num(458), Num(265)), Pt(Num(430), Num(265))>>
    /\ rendered.wg.shown
    /\ Visits(rendered.wg.rev) =
          <<Pt(Num(1060), Num(510)), Pt(Num(1032), Num(510)),
            Pt(Num(1048), Num(510)), Pt(Num(1020), Num(510))>>

\* C15: each connector is rendered if and only if overviewMode is true or
\* focus >= its minimum phase (wg 2; blocked flow and Vault warning 3; dns 4;
\* https and acme 5; CrowdSec loop 6).
C15_VisibleIffOverviewOrPhaseReached ==
    /\ DOMAIN rendered = Connectors
    /\ \A c \in Connectors :
          rendered[c].shown <=> (overviewMode \/ focus >= MinPhase[c])

C15_Witness ==
    /\ ~overviewMode
    /\ focus = 3
    /\ Visible = {"wg", "blocked", "vaultWarning"}

\* C16: after any sequence of phase selections and mode toggles the five
\* flows' point sequences and the node rectangles are those of the initial
\* state, and a call of a geometry helper changes neither focus nor
\* overviewMode.
C16_GeometryIndependentOfUiState ==
    /\ [](flows = flowPts /\ nodes = nodeRects)
    /\ [][call' # call => (focus' = focus /\ overviewMode' = overviewMode)]_vars

C16_Witness ==
    /\ ~overviewMode
    /\ focus = 1
    /\ ~rendered.dns.shown
    /\ flows.dns = dnsPts
    /\ flows.blocked = blockedPts
    /\ nodes.vault = vault

\* C17: every node rectangle lies strictly inside the canvas:
\* 0 < r.x, r.x + r.w < 1600, 0 < r.y and r.y + r.h < 780.
C17_NodesStrictlyInsideCanvas ==
    \A n \in DOMAIN nodes :
        /\ 0 < nodes[n].x
        /\ nodes[n].x + nodes[n].w < view.w
        /\ 0 < nodes[n].y
        /\ nodes[n].y + nodes[n].h < view.h

\* C18: selecting a phase changes only focus, choosing a mode changes only
\* overviewMode, and while overviewMode stays true no step changes which
\* connectors are visible.
C18_HandlersChangeOnlyTheirOwnState ==
    [][/\ focus' # focus => overviewMode' = overviewMode
       /\ overviewMode' # overviewMode => focus' = focus
       /\ (overviewMode /\ overviewMode') => Visible' = Visible]_vars

C18_Witness ==
    /\ overviewMode
    /\ focus = 2
    /\ Visible = Connectors

\* C19: in phase mode, stepping focus upward only ever adds connectors, and
\* at focus = 6 every connector is visible.
C19_VisibilityMonotoneInPhase ==
    /\ [][(~overviewMode /\ ~overviewMode' /\ focus' >= focus)
              => Visible \subseteq Visible']_vars
    /\ []((~overviewMode /\ focus = 6) => Visible = Connectors)

C19_Witness ==
    /\ ~overviewMode
    /\ focus = 4
    /\ Visible = {"wg", "blocked", "vaultWarning", "dns"}

\* C20: the initial state is focus = 6 with overviewMode = true; focus is
\* always one of the phases focusCopy explains; and with focus = 6 (as after
\* switching the initial state to phase mode) no connector is hidden.
C20_FocusAlwaysHasCopy ==
    /\ focus = 6 /\ overviewMode = TRUE
    /\ [](focus \in DOMAIN focusCopy)
    /\ [][(focus = 6 /\ overviewMode /\ ~overviewMode' /\ focus' = focus)
              => Visible' = Connectors]_vars

C20_Witness ==
    /\ ~overviewMode
    /\ focus = 6
    /\ focusCopy[focus] = "Phase 6: Active Defense"
    /\ Visible = Connectors

\* The flow's arrival standoff point lies ahead of (or level with) its
\* departure standoff point along the direction from its start port to its
\* end port.
DepartsBeforeArrives(pts) ==
    LET n  == Len(pts)
        dx == pts[n].x - pts[1].x
        dy == pts[n].y - pts[1].y
    IN  (pts[n - 1].x - pts[2].x) * dx + (pts[n - 1].y - pts[2].y) * dy >= 0

\* C21: no flow of the layout doubles back around its standoff points: the
\* departure standoff point is not past the arrival standoff point along the
\* direction of travel, and the 4-point WireGuard connector has
\* start.x <= startOut.x <= endOut.x <= end.x.
C21_NoFlowDoublesBack ==
    /\ \A f \in DOMAIN flows : DepartsBeforeArrives(flows[f])
    /\ Len(flows.wg) = 4
    /\ \A i \in 1..(Len(flows.wg) - 1) : flows.wg[i].x <= flows.wg[i + 1].x

\* Two rectangles share an interior point.
Overlap(a, b) ==
    /\ a.x < b.x + b.w
    /\ b.x < a.x + a.w
    /\ a.y < b.y + b.h
    /\ b.y < a.y + a.h

\* C22: the four node rectangles are pairwise non-overlapping: no two of
\* them share an interior point.
C22_NodesPairwiseDisjoint ==
    /\ DOMAIN nodes = {"internet", "bouncer", "vault", "ca"}
    /\ \A a \in DOMAIN nodes, b \in DOMAIN nodes :
           a # b => ~Overlap(nodes[a], nodes[b])

\* A render in phase mode declares the four nodes; ca and vault share a
\* span of x, bouncer and internet share a span of y.
C22_Witness ==
    /\ ~overviewMode
    /\ focus = 2
    /\ nodes = nodeRects
    /\ nodes.vault.x < nodes.ca.x /\ nodes.ca.x + nodes.ca.w < nodes.vault.x + nodes.vault.w
    /\ nodes.bouncer.y < nodes.internet.y + nodes.internet.h
    /\ nodes.internet.x + nodes.internet.w <= nodes.bouncer.x

====
